---- MODULE Spec2Model ----
(***************************************************************************)
(* State-machine model of the invoice saga (billing_service and            *)
(* inventory_service) and of the distributed customer deletion             *)
(* (account_service) of prietto/microservices_dapr.                        *)
(*                                                                         *)
(* Two specifications share the module:                                    *)
(*   Spec          the invoice saga: billing handlers, payment timers and  *)
(*                 the inventory handlers, talking over the bus;           *)
(*   DeletionSpec  the deletion coordinator of account_service.            *)
(*                                                                         *)
(* Strings written by the handlers (notes, per-stage status texts) are     *)
(* modelled by one tag per distinct format string of the source.           *)
(* The bus is at-least-once and unordered: a published event stays in the  *)
(* set `bus` and may be delivered any number of times, in any order.       *)
(*                                                                         *)
(* Each service runs its async handlers and its timer tasks on one event   *)
(* loop; one delivery, or one firing of a timer, is one step.  Endpoints   *)
(* declared with a plain def run on a pool thread, concurrently with the   *)
(* event loop: the deletion-response endpoint of account_service is        *)
(* modelled by its reads and commits, interleaved with the steps of the    *)
(* silence timer.  Failures of the database are not modelled.              *)
(***************************************************************************)
EXTENDS Integers, Sequences, FiniteSets, TLC

(***************************************************************************)
(* Bounds of the model.                                                    *)
(***************************************************************************)
MaxQty == 3        \* largest quantity of an invoice
MaxTimers == 2     \* payment timers of one invoice sleeping at the same time
MaxComp == 2       \* compensations billing requests for one invoice
MaxNotes == 2      \* notes of an invoice, counted in appended pieces
Price == 10        \* unit price of the product
MaxSilenceTimers == 2  \* silence timers of one customer sleeping at the same time
MaxEvents == 2     \* events published to the topics of inventory by other publishers

(***************************************************************************)
(* Values of the source.                                                   *)
(***************************************************************************)
None == "None"   \* a NULL text column, a missing argument
Null == 0        \* a NULL numeric column; the source only tests numbers for truth,
                 \* which NULL and 0 fail alike

PENDING == "pending"
PROCESSING == "processing"
PAYMENT_PROCESSING == "payment_processing"
COMPLETED == "completed"
FAILED == "failed"
CANCELLED == "cancelled"

InvoiceStatus == {PENDING, PROCESSING, PAYMENT_PROCESSING, COMPLETED, FAILED, CANCELLED}

\* Stock of the seeded product MOUSE001.
InitStock == 2
\* Redelivered compensations add stock without limit; the model stops there.
MaxStock == InitStock + MaxQty

\* The saga is followed for one invoice of one product.
InvoiceIds == {1}
Products == {"P1"}
Quantities == 1..MaxQty

VARIABLES
    invoices,   \* billing: the invoices table, invoice id -> Invoice row
    items,      \* inventory: product_id -> InventoryItem row
    bus,        \* events published to the broker (redeliverable)
    ptimers,    \* billing: invoice id -> number of sleeping check_payment_timeout tasks
    ncomp,      \* billing: invoice id -> number of calls of trigger_inventory_compensation
    http,       \* billing: invoice id -> result of the create-invoice request
    not_found,  \* inventory: compensate-inventory events answered with
                \* {"success": False, "error": "Product not found"}
    failing     \* billing: invoice ids whose handle_payment_failed is suspended
                \* in the post of compensate-inventory

sagaVars == <<invoices, items, bus, ptimers, ncomp, http, not_found, failing>>

VARIABLES
    customers,  \* account: customer_id -> Customer row (deletion columns)
    asleep,     \* account: customer_id -> number of sleeping _start_silence_timeout tasks
    tmr,        \* account: the silence timer that has read the row and not yet written
    rest,       \* account: the deletion-response request running on a pool thread
    out,        \* account: notifications and requests published
    decided,    \* account: customer_id -> votes the finalization of the current
                \* deletion process decided on
    reply,      \* account: customer_id -> what the last DELETE /customers/{id}
                \* returned
    dresp,      \* customer.deletion.response events published by billing
    vetoed      \* account: customer_id -> a response with can_delete = false was
                \* recorded for the current deletion request

delVars == <<customers, asleep, tmr, rest, out, decided, reply, dresp, vetoed>>

vars == <<sagaVars, delVars>>

(***************************************************************************)
(* InvoiceService                                                          *)
(***************************************************************************)
\* The customer the invoices of the model are created for.
InvoiceCustomer == "CUST1"

\* A row of invoices, with the columns the handlers read and write: those of
\* the Invoice table, and the customer_id and the per-stage texts of
\* InvoiceResponse.
NewInvoice(product, quantity) ==
    [status |-> PENDING, customer_id |-> InvoiceCustomer,
     product_id |-> product, quantity |-> quantity,
     unit_price |-> Null, total_amount |-> Null,
     notes |-> <<"created_verifying">>,
     customer_status |-> None, inventory_status |-> None, payment_status |-> None]

\* update_invoice_status: writes the status unconditionally, whatever the
\* current one is; unit_price and notes only when given (a falsy argument,
\* Null or <<>>, leaves the column alone).
update_invoice_status(inv, id, status, unit_price, notes) ==
    IF id \notin DOMAIN inv THEN inv
    ELSE [inv EXCEPT ![id] =
            [@ EXCEPT !.status = status,
                      !.unit_price = IF unit_price # Null THEN unit_price ELSE @,
                      !.total_amount = IF unit_price # Null THEN unit_price * inv[id].quantity ELSE @,
                      !.notes = IF notes # <<>> THEN notes ELSE @]]

update_customer_status(inv, id, text) ==
    IF id \notin DOMAIN inv THEN inv ELSE [inv EXCEPT ![id].customer_status = text]

update_inventory_status(inv, id, text) ==
    IF id \notin DOMAIN inv THEN inv ELSE [inv EXCEPT ![id].inventory_status = text]

update_payment_status(inv, id, text) ==
    IF id \notin DOMAIN inv THEN inv ELSE [inv EXCEPT ![id].payment_status = text]

(***************************************************************************)
(* Events                                                                  *)
(***************************************************************************)
InventoryCheck(id, product, quantity) ==
    [topic |-> "inventory-check", invoice_id |-> id, product_id |-> product, quantity |-> quantity]

CustomerCheck(id) ==
    [topic |-> "customer-check", invoice_id |-> id]

InventoryResponse(id, available, unit_price) ==
    [topic |-> "inventory-response", invoice_id |-> id, available |-> available, unit_price |-> unit_price]

PaymentRequest(id, amount) ==
    [topic |-> "payment-request", invoice_id |-> id, amount |-> amount]

CompensateInventory(id, product, quantity) ==
    [topic |-> "compensate-inventory", invoice_id |-> id, product_id |-> product,
     quantity |-> quantity]

InventoryCompensated(id, product, restored) ==
    [topic |-> "inventory-compensated", invoice_id |-> id, product_id |-> product,
     quantity_restored |-> restored, compensation_successful |-> TRUE]

\* The confirmation of a compensation that failed.
InventoryCompensationFailed(id, product) ==
    [topic |-> "inventory-compensated", invoice_id |-> id, product_id |-> product,
     quantity_restored |-> Null, compensation_successful |-> FALSE]

Topic(t) == {m \in bus : m.topic = t}

\* An outbound publish whose result the caller branches on: the event reaches
\* the broker only when the post returns 204.
Publish(b, msg, ok) == IF ok THEN b \cup {msg} ELSE b

\* An outbound publish whose result the caller only logs.  The event is put on
\* the bus; a post that failed is an event that is never delivered, which
\* every behaviour of the bus already allows.
Post(b, msg) == b \cup {msg}

(***************************************************************************)
(* billing: POST /create-invoice                                           *)
(***************************************************************************)
\* The row is inserted as PENDING and moved to PROCESSING before the first
\* suspension point.  The two checks are then posted.  When a post did not
\* return 204 the handler calls update_invoice_status(..., FAILED, ...)
\* without awaiting it: the coroutine never runs, so nothing is written.
CreateInvoice(id, product, quantity, invOk, custOk) ==
    /\ id \notin DOMAIN invoices
    /\ \A j \in InvoiceIds : j < id => j \in DOMAIN invoices
    /\ LET created == [j \in DOMAIN invoices \cup {id} |->
                          IF j = id THEN NewInvoice(product, quantity) ELSE invoices[j]]
           processing == update_invoice_status(created, id, PROCESSING, Null,
                                               <<"verification_in_progress">>)
       IN  invoices' = processing
    /\ bus' = Publish(Publish(bus, InventoryCheck(id, product, quantity), invOk),
                      CustomerCheck(id), custOk)
    /\ http' = [http EXCEPT ![id] = IF invOk /\ custOk THEN "200" ELSE "500"]
    /\ UNCHANGED <<items, ptimers, ncomp, not_found, failing>>
    /\ UNCHANGED delVars

(***************************************************************************)
(* InventoryService                                                        *)
(***************************************************************************)
\* update_item_quantity leaving the available flag as it was.
update_item_quantity_stale_flag(its, product, quantity_change) ==
    LET new_quantity == its[product].quantity + quantity_change
    IN  IF new_quantity < 0 THEN its
        ELSE [its EXCEPT ![product].quantity = new_quantity]

\* update_item_quantity: delta update, refused when the result is negative.
update_item_quantity(its, product, quantity_change) ==
    LET new_quantity == its[product].quantity + quantity_change
    IN  IF new_quantity < 0 THEN its
        ELSE [its EXCEPT ![product].quantity = new_quantity,
                         ![product].available = (new_quantity > 0)]

(***************************************************************************)
(* inventory: POST /inventory-check                                        *)
(***************************************************************************)
\* handle_inventory_check answering from the stock being non-empty instead
\* of from the stock covering the requested quantity.
HandleInventoryCheckAnyStock(m) ==
    /\ m \in Topic("inventory-check")
    /\ IF m.product_id \in DOMAIN items /\ items[m.product_id].quantity > 0
       THEN /\ items' = update_item_quantity(items, m.product_id, -m.quantity)
            /\ bus' = Post(bus, InventoryResponse(m.invoice_id, TRUE, items[m.product_id].price))
       ELSE /\ items' = items
            /\ bus' = Post(bus, InventoryResponse(m.invoice_id, FALSE,
                                   IF m.product_id \in DOMAIN items
                                   THEN items[m.product_id].price ELSE 0))
    /\ UNCHANGED <<invoices, ptimers, ncomp, http, not_found, failing>>
    /\ UNCHANGED delVars

HandleInventoryCheck(m) ==
    /\ m \in Topic("inventory-check")
    /\ IF m.product_id \in DOMAIN items /\ items[m.product_id].quantity >= m.quantity
       THEN /\ items' = update_item_quantity(items, m.product_id, -m.quantity)
            /\ bus' = Post(bus, InventoryResponse(m.invoice_id, TRUE, items[m.product_id].price))
       ELSE /\ items' = items
            /\ bus' = Post(bus, InventoryResponse(m.invoice_id, FALSE,
                                   IF m.product_id \in DOMAIN items
                                   THEN items[m.product_id].price ELSE 0))
    /\ UNCHANGED <<invoices, ptimers, ncomp, http, not_found, failing>>
    /\ UNCHANGED delVars

(***************************************************************************)
(* inventory: POST /compensate-inventory                                   *)
(***************************************************************************)
\* The quantity of the event is added back on every delivery; nothing records
\* that a compensation was applied.  A missing product returns without
\* publishing anything.
HandleCompensateInventory(m) ==
    /\ m \in Topic("compensate-inventory")
    /\ IF m.product_id \notin DOMAIN items
       THEN /\ not_found' = not_found \cup {m}
            /\ UNCHANGED <<items, bus>>
       ELSE /\ items[m.product_id].quantity + m.quantity <= MaxStock
            /\ items' = update_item_quantity(items, m.product_id, m.quantity)
            /\ bus' = Post(bus, InventoryCompensated(m.invoice_id, m.product_id, m.quantity))
            /\ UNCHANGED not_found
    /\ UNCHANGED <<invoices, ptimers, ncomp, http, failing>>
    /\ UNCHANGED delVars

(***************************************************************************)
(* billing: compensation                                                   *)
(***************************************************************************)
\* trigger_inventory_compensation: posts compensate-inventory; a failed post
\* is only logged.
trigger_inventory_compensation(b, id, product, quantity) ==
    Post(b, CompensateInventory(id, product, quantity))

(***************************************************************************)
(* billing: POST /inventory-response                                       *)
(***************************************************************************)
\* request_payment_processing starts a payment timer, then posts
\* payment-request.  When the post fails, handle_payment_request_failure
\* asks for a compensation of quantity 1 and cancels the invoice.
\* On the available branch the status is not written.
HandleInventoryResponse(m, payOk) ==
    /\ m \in Topic("inventory-response")
    /\ m.invoice_id \in DOMAIN invoices
    /\ LET id == m.invoice_id
           invoice == invoices[id]
           inv1 == update_inventory_status(invoices, id,
                       IF m.available THEN "available" ELSE "not_available")
           inv2 == update_payment_status(inv1, id, "initiated")
       IN  IF m.available /\ m.unit_price # 0
           THEN /\ ptimers[id] < MaxTimers
                /\ ptimers' = [ptimers EXCEPT ![id] = @ + 1]
                /\ IF payOk
                   THEN /\ bus' = bus \cup {PaymentRequest(id, m.unit_price * invoice.quantity)}
                        /\ invoices' = inv2
                        /\ ncomp' = ncomp
                   ELSE /\ ncomp[id] < MaxComp
                        /\ bus' = trigger_inventory_compensation(bus, id, invoice.product_id, 1)
                        /\ ncomp' = [ncomp EXCEPT ![id] = @ + 1]
                        /\ invoices' = update_invoice_status(inv2, id, CANCELLED, Null,
                                                             <<"payment_request_failed">>)
           ELSE /\ invoices' = update_invoice_status(inv1, id, FAILED, Null,
                                                     <<"inventory_issues">>)
                /\ UNCHANGED <<bus, ptimers, ncomp>>
    /\ UNCHANGED <<items, http, not_found, failing>>
    /\ UNCHANGED delVars

(***************************************************************************)
(* billing: check_payment_timeout                                          *)
(***************************************************************************)
\* check_payment_timeout asking for a compensation of quantity 1, as
\* handle_payment_request_failure does.
CheckPaymentTimeoutQuantityOne(id) ==
    /\ id \in DOMAIN invoices
    /\ ptimers[id] > 0
    /\ ptimers' = [ptimers EXCEPT ![id] = @ - 1]
    /\ IF invoices[id].status = PROCESSING
       THEN /\ ncomp[id] < MaxComp
            /\ invoices' = update_payment_status(
                               update_invoice_status(invoices, id, CANCELLED, Null, <<"payment_timed_out">>),
                               id, "timeout")
            /\ bus' = trigger_inventory_compensation(bus, id, invoices[id].product_id, 1)
            /\ ncomp' = [ncomp EXCEPT ![id] = @ + 1]
       ELSE UNCHANGED <<invoices, bus, ncomp>>
    /\ UNCHANGED <<items, http, not_found, failing>>
    /\ UNCHANGED delVars

\* The timer acts only when the invoice is still PROCESSING.
CheckPaymentTimeout(id) ==
    /\ id \in DOMAIN invoices
    /\ ptimers[id] > 0
    /\ ptimers' = [ptimers EXCEPT ![id] = @ - 1]
    /\ IF invoices[id].status = PROCESSING
       THEN /\ ncomp[id] < MaxComp
            /\ invoices' = update_payment_status(
                               update_invoice_status(invoices, id, CANCELLED, Null, <<"payment_timed_out">>),
                               id, "timeout")
            /\ bus' = trigger_inventory_compensation(bus, id, invoices[id].product_id,
                                                     invoices[id].quantity)
            /\ ncomp' = [ncomp EXCEPT ![id] = @ + 1]
       ELSE UNCHANGED <<invoices, bus, ncomp>>
    /\ UNCHANGED <<items, http, not_found, failing>>
    /\ UNCHANGED delVars

(***************************************************************************)
(* billing: POST /customer-response                                        *)
(***************************************************************************)
\* account_service answers a delivered customer-check with exactly one of
\* these outcomes (customer found; customer created; error), and the answer
\* is delivered to billing any number of times.
CustomerOutcomes == {"exists", "created", "error"}

HandleCustomerResponse(id, outcome) ==
    /\ CustomerCheck(id) \in bus
    /\ id \in DOMAIN invoices
    /\ outcome \in CustomerOutcomes
    /\ IF outcome = "error"
       THEN invoices' = update_invoice_status(
                            update_customer_status(invoices, id, "verification_failed"),
                            id, FAILED, Null, <<"customer_verification_issues">>)
       ELSE invoices' = update_customer_status(invoices, id, outcome)
    /\ UNCHANGED <<items, bus, ptimers, ncomp, http, not_found, failing>>
    /\ UNCHANGED delVars

(***************************************************************************)
(* billing: POST /payment-completed                                        *)
(***************************************************************************)
\* The payment service publishes payment-completed or payment-failed only in
\* answer to a payment-request; either answer may then be delivered any
\* number of times.
PaymentRequested(id) == \E m \in Topic("payment-request") : m.invoice_id = id

\* Only CANCELLED, COMPLETED and FAILED are turned away; from every other
\* status the invoice is completed.
HandlePaymentCompleted(id) ==
    /\ PaymentRequested(id)
    /\ id \in DOMAIN invoices
    /\ LET status == invoices[id].status
       IN  IF status = CANCELLED
           THEN invoices' = update_payment_status(invoices, id, "received_after_cancellation")
           ELSE IF status = COMPLETED
           THEN invoices' = invoices
           ELSE IF status = FAILED
           THEN invoices' = update_payment_status(invoices, id, "late_for_failed_invoice")
           ELSE invoices' = update_invoice_status(
                                update_payment_status(invoices, id, "completed"),
                                id, COMPLETED, Null, <<"payment_completed">>)
    /\ UNCHANGED <<items, bus, ptimers, ncomp, http, not_found, failing>>
    /\ UNCHANGED delVars

(***************************************************************************)
(* billing: POST /payment-failed                                           *)
(***************************************************************************)
\* No check of the current status: the compensation is requested and the
\* invoice is marked FAILED whenever the row exists.
HandlePaymentFailed(id) ==
    /\ PaymentRequested(id)
    /\ id \in DOMAIN invoices
    /\ ncomp[id] < MaxComp
    /\ bus' = trigger_inventory_compensation(bus, id, invoices[id].product_id,
                                             invoices[id].quantity)
    /\ ncomp' = [ncomp EXCEPT ![id] = @ + 1]
    /\ invoices' = update_invoice_status(invoices, id, FAILED, Null, <<"payment_failed">>)
    /\ UNCHANGED <<items, ptimers, http, not_found, failing>>
    /\ UNCHANGED delVars

\* handle_payment_failed in its two steps.  The handler reads the invoice and
\* posts compensate-inventory; the post is a suspension point of the event
\* loop, where other handlers run.  When the post returns the handler writes
\* FAILED.
PaymentFailedCompensate(id) ==
    /\ PaymentRequested(id)
    /\ id \in DOMAIN invoices
    /\ id \notin failing
    /\ ncomp[id] < MaxComp
    /\ bus' = trigger_inventory_compensation(bus, id, invoices[id].product_id,
                                             invoices[id].quantity)
    /\ ncomp' = [ncomp EXCEPT ![id] = @ + 1]
    /\ failing' = failing \cup {id}
    /\ UNCHANGED <<invoices, items, ptimers, http, not_found>>
    /\ UNCHANGED delVars

PaymentFailedMark(id) ==
    /\ id \in failing
    /\ invoices' = update_invoice_status(invoices, id, FAILED, Null, <<"payment_failed">>)
    /\ failing' = failing \ {id}
    /\ UNCHANGED <<items, bus, ptimers, ncomp, http, not_found>>
    /\ UNCHANGED delVars

(***************************************************************************)
(* billing: POST /inventory-compensated                                    *)
(***************************************************************************)
\* A successful confirmation appends a note and writes CANCELLED.
HandleInventoryCompensated(m) ==
    /\ m \in Topic("inventory-compensated")
    /\ m.invoice_id \in DOMAIN invoices
    /\ Len(invoices[m.invoice_id].notes) < MaxNotes
    /\ IF m.compensation_successful
       THEN invoices' = update_invoice_status(invoices, m.invoice_id, CANCELLED, Null,
                            Append(invoices[m.invoice_id].notes, "compensated"))
       ELSE invoices' = invoices
    /\ UNCHANGED <<items, bus, ptimers, ncomp, http, not_found, failing>>
    /\ UNCHANGED delVars

(***************************************************************************)
(* billing: POST /billing-compensate                                       *)
(***************************************************************************)
HandleBillingCompensate(id) ==
    /\ id \in DOMAIN invoices
    /\ invoices' = update_invoice_status(invoices, id, CANCELLED, Null,
                                         <<"compensated_by_external_service">>)
    /\ UNCHANGED <<items, bus, ptimers, ncomp, http, not_found, failing>>
    /\ UNCHANGED delVars

(***************************************************************************)
(* billing: POST /customer-deletion-request                                *)
(***************************************************************************)
\* The customer ids a customer.deletion.request may carry.
RequestCustomers == {"CUST1", "CUST2"}

DeletionResponse(c, service_name, can_delete, blocking_invoices_count) ==
    [topic |-> "customer.deletion.response", customer_id |-> c,
     service_name |-> service_name, can_delete |-> can_delete,
     blocking_invoices_count |-> blocking_invoices_count]

\* InvoiceService.get_invoices_by_customer
get_invoices_by_customer(inv, c) == {id \in DOMAIN inv : inv[id].customer_id = c}

\* handle_customer_deletion_request counting every invoice of the customer
\* as blocking, whatever its status.
HandleCustomerDeletionRequestAnyStatus(c) ==
    /\ c \in RequestCustomers
    /\ LET blocking_invoices == get_invoices_by_customer(invoices, c)
       IN  dresp' = Post(dresp, DeletionResponse(c, "billing-service",
                                                 Cardinality(blocking_invoices) = 0,
                                                 Cardinality(blocking_invoices)))
    /\ UNCHANGED <<customers, asleep, tmr, rest, out, decided, reply, vetoed>>
    /\ UNCHANGED sagaVars

\* The invoices of the customer that are PENDING or PROCESSING block the
\* deletion; the verdict is posted and nothing is written.
HandleCustomerDeletionRequest(c) ==
    /\ c \in RequestCustomers
    /\ LET active_invoices == get_invoices_by_customer(invoices, c)
           blocking_invoices == {id \in active_invoices :
                                    invoices[id].status \in {PENDING, PROCESSING}}
       IN  dresp' = Post(dresp, DeletionResponse(c, "billing-service",
                                                 Cardinality(blocking_invoices) = 0,
                                                 Cardinality(blocking_invoices)))
    /\ UNCHANGED <<customers, asleep, tmr, rest, out, decided, reply, vetoed>>
    /\ UNCHANGED sagaVars

SagaInit ==
    /\ invoices = <<>>
    /\ items = [p \in Products |-> [quantity |-> InitStock, price |-> Price, available |-> TRUE]]
    /\ bus = {}
    /\ ptimers = [i \in InvoiceIds |-> 0]
    /\ ncomp = [i \in InvoiceIds |-> 0]
    /\ http = [i \in InvoiceIds |-> None]
    /\ not_found = {}
    /\ failing = {}

Next ==
    \/ \E id \in InvoiceIds, p \in Products, q \in Quantities, invOk \in BOOLEAN, custOk \in BOOLEAN :
          CreateInvoice(id, p, q, invOk, custOk)
    \/ \E m \in bus : HandleInventoryCheck(m)
    \/ \E m \in bus : HandleCompensateInventory(m)
    \/ \E m \in bus, payOk \in BOOLEAN : HandleInventoryResponse(m, payOk)
    \/ \E id \in InvoiceIds : CheckPaymentTimeout(id)
    \/ \E id \in InvoiceIds, o \in CustomerOutcomes : HandleCustomerResponse(id, o)
    \/ \E id \in InvoiceIds : HandlePaymentCompleted(id)
    \/ \E id \in InvoiceIds : HandlePaymentFailed(id)
    \/ \E m \in bus : HandleInventoryCompensated(m)
    \/ \E id \in InvoiceIds : HandleBillingCompensate(id)

(***************************************************************************)
(* account: Customer rows and the values of the deletion columns           *)
(***************************************************************************)
ACTIVE == "active"
PENDING_DELETION == "pending_deletion"
DELETED == "deleted"

Customers == {"CUST1"}

expected_services == {"billing-service", "inventory-service", "payment-service"}

\* A Text column is NULL (NoText) or holds the JSON text of a value.
NoText == <<>>

json_dumps(value) == <<value>>

\* json.loads(column or "{}") for a column holding a dict.
json_loads(text) == IF text = NoText THEN <<>> ELSE text[1]

\* The entry process_deletion_response stores for a service.
Vote(can_delete, blocking_reason) ==
    [can_delete |-> can_delete, blocking_reason |-> blocking_reason, response_type |-> None]

\* The entry the silence timer makes up for a service that did not answer.
TimeoutVote ==
    [can_delete |-> TRUE, blocking_reason |-> None, response_type |-> "silence_timeout"]

\* The reason a service gives with its answer.
ReasonOf(can_delete) == IF can_delete THEN None ELSE "has_active_invoices"

\* dict[key] = value
Put(dict, key, value) ==
    [k \in DOMAIN dict \cup {key} |-> IF k = key THEN value ELSE dict[k]]

NewCustomer ==
    [status |-> ACTIVE, deletion_requested_at |-> None, deletion_timeout_at |-> None,
     deletion_responses |-> NoText, deletion_blocked_by |-> NoText,
     deletion_completed |-> FALSE]

DeletionRequest(c) == [topic |-> "customer.deletion.request", customer_id |-> c]

DeletionResult(c, decision) ==
    [topic |-> "customer.deletion.result", customer_id |-> c, decision |-> decision]

DeletionCompleted(c, method) ==
    [topic |-> "customer.deletion.completed", customer_id |-> c, deletion_method |-> method]

(***************************************************************************)
(* CustomerDeletionService                                                 *)
(***************************************************************************)
\* _finalize_deletion_decision: decides on the dict it is handed, not on the
\* stored column.  Returns the new rows.
blocking_services(responses) ==
    {[service |-> s, reason |-> responses[s].blocking_reason] :
        s \in {t \in DOMAIN responses : ~responses[t].can_delete}}

finalize_rows(cust, c, responses) ==
    IF blocking_services(responses) # {}
    THEN [cust EXCEPT ![c].status = ACTIVE,
                      ![c].deletion_requested_at = None,
                      ![c].deletion_blocked_by = json_dumps(blocking_services(responses))]
    ELSE [cust EXCEPT ![c].status = DELETED]

finalize_result(c, responses) ==
    IF blocking_services(responses) # {}
    THEN DeletionResult(c, "deletion_cancelled")
    ELSE DeletionResult(c, "customer_deleted")

\* The effect of _finalize_deletion_decision on the rows cust.
FinalizeDeletionDecision(cust, c, responses) ==
    /\ customers' = finalize_rows(cust, c, responses)
    /\ out' = Post(out, finalize_result(c, responses))
    /\ decided' = [decided EXCEPT ![c] = <<responses>>]

\* silence_responses of _execute_deletion_by_silence.
silence_responses == [s \in expected_services |-> TimeoutVote]

\* _execute_deletion_by_silence without the record of the made-up votes.
ExecuteDeletionBySilenceNoRecord(c) ==
    /\ customers' = [customers EXCEPT ![c].status = DELETED]
    /\ out' = Post(out, DeletionCompleted(c, "silence_timeout"))
    /\ decided' = [decided EXCEPT ![c] = <<silence_responses>>]

\* _execute_deletion_by_silence: writes DELETED and the made-up votes over
\* whatever the row holds, then posts customer.deletion.completed.
ExecuteDeletionBySilence(c) ==
    /\ customers' = [customers EXCEPT ![c].status = DELETED,
                                      ![c].deletion_responses = json_dumps(silence_responses)]
    /\ out' = Post(out, DeletionCompleted(c, "silence_timeout"))
    /\ decided' = [decided EXCEPT ![c] = <<silence_responses>>]

(***************************************************************************)
(* account: DELETE /customers/{customer_id}                                *)
(***************************************************************************)
\* request_customer_deletion treating a customer already PENDING_DELETION as
\* any other: the process is started again.
RequestDeletionRestart(c, pubOk) ==
    /\ tmr = <<>>
    /\ decided' = [decided EXCEPT ![c] = <<>>]
    /\ vetoed' = [vetoed EXCEPT ![c] = FALSE]
    /\ LET pending == [customers EXCEPT ![c].status = PENDING_DELETION,
                                        ![c].deletion_requested_at = "now",
                                        ![c].deletion_responses = NoText,
                                        ![c].deletion_blocked_by = NoText]
       IN  IF pubOk
           THEN /\ asleep[c] < MaxSilenceTimers
                /\ customers' = pending
                /\ out' = Publish(out, DeletionRequest(c), TRUE)
                /\ asleep' = [asleep EXCEPT ![c] = @ + 1]
                /\ reply' = [reply EXCEPT ![c] = "validation_started"]
           ELSE /\ customers' = [pending EXCEPT ![c].status = ACTIVE,
                                                ![c].deletion_requested_at = None]
                /\ reply' = [reply EXCEPT ![c] = "error_broadcast"]
                /\ UNCHANGED <<out, asleep>>
    /\ UNCHANGED <<tmr, rest, dresp>>
    /\ UNCHANGED sagaVars

\* Runs on the event loop.  A customer already PENDING_DELETION is turned
\* away with an error result and nothing is written; no other status is
\* turned away.  A failed broadcast writes ACTIVE and returns an error result.
RequestDeletion(c, pubOk) ==
    /\ tmr = <<>>
    /\ IF customers[c].status = PENDING_DELETION
       THEN /\ reply' = [reply EXCEPT ![c] = "error_in_progress"]
            /\ UNCHANGED <<customers, out, asleep, decided, vetoed>>
       ELSE /\ decided' = [decided EXCEPT ![c] = <<>>]
            /\ vetoed' = [vetoed EXCEPT ![c] = FALSE]
            /\ LET pending == [customers EXCEPT ![c].status = PENDING_DELETION,
                                                ![c].deletion_requested_at = "now",
                                                ![c].deletion_responses = NoText,
                                                ![c].deletion_blocked_by = NoText]
               IN  IF pubOk
                   THEN /\ asleep[c] < MaxSilenceTimers
                        /\ customers' = pending
                        /\ out' = Publish(out, DeletionRequest(c), TRUE)
                        /\ asleep' = [asleep EXCEPT ![c] = @ + 1]
                        /\ reply' = [reply EXCEPT ![c] = "validation_started"]
                   ELSE /\ customers' = [pending EXCEPT ![c].status = ACTIVE,
                                                        ![c].deletion_requested_at = None]
                        /\ reply' = [reply EXCEPT ![c] = "error_broadcast"]
                        /\ UNCHANGED <<out, asleep>>
    /\ UNCHANGED <<tmr, rest, dresp>>
    /\ UNCHANGED sagaVars

(***************************************************************************)
(* account: POST /customer-deletion-response (subscription, event loop)    *)
(***************************************************************************)
\* process_deletion_response run in one piece.
HandleDeletionResponse(c, service_name, can_delete) ==
    /\ tmr = <<>>
    /\ customers[c].status = PENDING_DELETION
    /\ LET responses == Put(json_loads(customers[c].deletion_responses), service_name,
                            Vote(can_delete, ReasonOf(can_delete)))
           recorded == [customers EXCEPT ![c].deletion_responses = json_dumps(responses)]
       IN  IF expected_services \subseteq DOMAIN responses
           THEN FinalizeDeletionDecision(recorded, c, responses)
           ELSE /\ customers' = recorded
                /\ UNCHANGED <<out, decided>>
    /\ vetoed' = [vetoed EXCEPT ![c] = @ \/ ~can_delete]
    /\ UNCHANGED <<asleep, tmr, rest, reply, dresp>>
    /\ UNCHANGED sagaVars

(***************************************************************************)
(* account: POST /customers/{customer_id}/deletion-response (pool thread)  *)
(***************************************************************************)
\* The endpoint is a plain def: it runs process_deletion_response on a pool
\* thread, concurrently with the event loop.  Its steps are the read of the
\* row, the commit of the vote, and the finalization.
RestLoad(c, service_name, can_delete) ==
    /\ rest = <<>>
    /\ customers[c].status = PENDING_DELETION
    /\ rest' = <<[customer_id |-> c, pc |-> "record", can_delete |-> can_delete,
                  responses |-> Put(json_loads(customers[c].deletion_responses),
                                    service_name, Vote(can_delete, ReasonOf(can_delete)))]>>
    /\ UNCHANGED <<customers, asleep, tmr, out, decided, reply, dresp, vetoed>>
    /\ UNCHANGED sagaVars

RestRecord ==
    /\ rest # <<>>
    /\ rest[1].pc = "record"
    /\ customers' = [customers EXCEPT ![rest[1].customer_id].deletion_responses =
                                          json_dumps(rest[1].responses)]
    /\ rest' = IF expected_services \subseteq DOMAIN rest[1].responses
               THEN <<[rest[1] EXCEPT !.pc = "finalize"]>>
               ELSE <<>>
    /\ vetoed' = [vetoed EXCEPT ![rest[1].customer_id] =
                      @ \/ (/\ customers[rest[1].customer_id].status = PENDING_DELETION
                            /\ ~rest[1].can_delete)]
    /\ UNCHANGED <<asleep, tmr, out, decided, reply, dresp>>
    /\ UNCHANGED sagaVars

RestFinalize ==
    /\ rest # <<>>
    /\ rest[1].pc = "finalize"
    /\ FinalizeDeletionDecision(customers, rest[1].customer_id, rest[1].responses)
    /\ rest' = <<>>
    /\ UNCHANGED <<asleep, tmr, reply, dresp, vetoed>>
    /\ UNCHANGED sagaVars

(***************************************************************************)
(* account: _start_silence_timeout                                         *)
(***************************************************************************)
\* _start_silence_timeout acting without the check of the status.
TimerWakeNoRecheck(c) ==
    /\ tmr = <<>>
    /\ asleep[c] > 0
    /\ asleep' = [asleep EXCEPT ![c] = @ - 1]
    /\ tmr' = <<[customer_id |-> c,
                 responses |-> json_loads(customers[c].deletion_responses)]>>
    /\ UNCHANGED <<customers, rest, out, decided, reply, dresp, vetoed>>
    /\ UNCHANGED sagaVars

\* The task wakes, reads the row, and acts on what it read.  Nothing else
\* runs on the event loop between the two steps; the pool thread may.
TimerWake(c) ==
    /\ tmr = <<>>
    /\ asleep[c] > 0
    /\ asleep' = [asleep EXCEPT ![c] = @ - 1]
    /\ tmr' = IF customers[c].status = PENDING_DELETION
              THEN <<[customer_id |-> c,
                      responses |-> json_loads(customers[c].deletion_responses)]>>
              ELSE <<>>
    /\ UNCHANGED <<customers, rest, out, decided, reply, dresp, vetoed>>
    /\ UNCHANGED sagaVars

\* Votes of the services that answered, timeout votes for the others.
with_timeout_votes(responses) ==
    [s \in DOMAIN responses \cup expected_services |->
        IF s \in DOMAIN responses THEN responses[s] ELSE TimeoutVote]

\* _start_silence_timeout finalizing on silence or on a full set of
\* responses only: with a partial set it does nothing.
TimerActIgnoresPartial ==
    /\ tmr # <<>>
    /\ LET c == tmr[1].customer_id
           responses == tmr[1].responses
       IN  IF responses = <<>>
           THEN ExecuteDeletionBySilence(c)
           ELSE IF expected_services \subseteq DOMAIN responses
           THEN FinalizeDeletionDecision(customers, c, responses)
           ELSE UNCHANGED <<customers, out, decided>>
    /\ tmr' = <<>>
    /\ UNCHANGED <<asleep, rest, reply, dresp, vetoed>>
    /\ UNCHANGED sagaVars

TimerAct ==
    /\ tmr # <<>>
    /\ LET c == tmr[1].customer_id
           responses == tmr[1].responses
       IN  IF responses = <<>>
           THEN ExecuteDeletionBySilence(c)
           ELSE IF expected_services \subseteq DOMAIN responses
           THEN FinalizeDeletionDecision(customers, c, responses)
           ELSE FinalizeDeletionDecision(customers, c, with_timeout_votes(responses))
    /\ tmr' = <<>>
    /\ UNCHANGED <<asleep, rest, reply, dresp, vetoed>>
    /\ UNCHANGED sagaVars

(***************************************************************************)
(* account: POST /customers/{customer_id}/reset-deletion                   *)
(***************************************************************************)
\* Runs on the event loop.  The deletion columns are cleared and the customer
\* is ACTIVE again, whatever the status was; the sleeping timers are left
\* alone.
ResetDeletion(c) ==
    /\ tmr = <<>>
    /\ customers' = [customers EXCEPT ![c].status = ACTIVE,
                                      ![c].deletion_requested_at = None,
                                      ![c].deletion_responses = NoText,
                                      ![c].deletion_blocked_by = NoText]
    /\ UNCHANGED <<asleep, tmr, rest, out, decided, reply, dresp, vetoed>>
    /\ UNCHANGED sagaVars

DeletionInit ==
    /\ customers = [c \in Customers |-> NewCustomer]
    /\ asleep = [c \in Customers |-> 0]
    /\ tmr = <<>>
    /\ rest = <<>>
    /\ out = {}
    /\ decided = [c \in Customers |-> <<>>]
    /\ reply = [c \in Customers |-> None]
    /\ dresp = {}
    /\ vetoed = [c \in Customers |-> FALSE]

DeletionNext ==
    \/ \E c \in Customers, pubOk \in BOOLEAN : RequestDeletion(c, pubOk)
    \/ \E c \in Customers, s \in expected_services, can \in BOOLEAN :
          HandleDeletionResponse(c, s, can)
    \/ \E c \in Customers, s \in expected_services, can \in BOOLEAN : RestLoad(c, s, can)
    \/ RestRecord
    \/ RestFinalize
    \/ \E c \in Customers : TimerWake(c)
    \/ TimerAct


Init == SagaInit /\ DeletionInit

Spec == Init /\ [][Next]_vars

DeletionSpec == Init /\ [][DeletionNext]_vars

\* The deletion coordinator with its scheduling: a sleeping silence timer
\* wakes, and a timer that woke goes on.  Nothing makes a service respond.
DeletionFairness ==
    /\ WF_vars(\E c \in Customers : TimerWake(c))
    /\ WF_vars(TimerAct)

DeletionLiveSpec == Init /\ [][DeletionNext]_vars /\ DeletionFairness

\* The saga with its scheduling: the broker delivers every event it holds
\* and a sleeping payment timer wakes.  Nothing makes the payment service
\* answer or anybody publish billing-compensate.
SagaFairness ==
    /\ WF_vars(\E m \in bus : HandleInventoryCheck(m))
    /\ WF_vars(\E m \in bus : HandleCompensateInventory(m))
    /\ WF_vars(\E m \in bus, payOk \in BOOLEAN : HandleInventoryResponse(m, payOk))
    /\ WF_vars(\E id \in InvoiceIds : CheckPaymentTimeout(id))
    /\ WF_vars(\E id \in InvoiceIds, o \in CustomerOutcomes : HandleCustomerResponse(id, o))
    /\ WF_vars(\E m \in bus : HandleInventoryCompensated(m))

LiveSpec == Init /\ [][Next]_vars /\ SagaFairness

(***************************************************************************)
(* inventory: the service under any publisher of its topics                *)
(***************************************************************************)
\* The product ids an event may name; only those of Products have an item.
AnyProducts == Products \cup {"P2"}

\* The events of the topics inventory-check and compensate-inventory.
InventoryEvents ==
    {InventoryCheck(id, p, q) : id \in InvoiceIds, p \in AnyProducts, q \in Quantities}
        \cup {CompensateInventory(id, p, q) : id \in InvoiceIds, p \in AnyProducts, q \in Quantities}

\* Any publisher puts an event on one of the two topics.
PublishInventoryEvent(m) ==
    /\ m \in InventoryEvents
    /\ Cardinality(bus \cap InventoryEvents) < MaxEvents
    /\ bus' = bus \cup {m}
    /\ UNCHANGED <<invoices, items, ptimers, ncomp, http, not_found, failing>>
    /\ UNCHANGED delVars

InventoryNext ==
    \/ \E m \in InventoryEvents : PublishInventoryEvent(m)
    \/ \E m \in bus : HandleInventoryCheck(m)
    \/ \E m \in bus : HandleCompensateInventory(m)

InventorySpec == Init /\ [][InventoryNext]_vars

\* The two timers with the handlers that start them and the handlers that
\* take their entity out of the state the timer waits in.
TimersNext ==
    \/ \E id \in InvoiceIds, p \in Products, q \in Quantities, invOk \in BOOLEAN, custOk \in BOOLEAN :
          CreateInvoice(id, p, q, invOk, custOk)
    \/ \E m \in bus : HandleInventoryCheck(m)
    \/ \E m \in bus, payOk \in BOOLEAN : HandleInventoryResponse(m, payOk)
    \/ \E id \in InvoiceIds : CheckPaymentTimeout(id)
    \/ \E c \in Customers, pubOk \in BOOLEAN : RequestDeletion(c, pubOk)
    \/ \E c \in Customers, s \in expected_services, can \in BOOLEAN :
          HandleDeletionResponse(c, s, can)
    \/ \E c \in Customers : TimerWake(c)
    \/ TimerAct

TimersSpec == Init /\ [][TimersNext]_vars

(***************************************************************************)
(* Restart of a coordinator process                                        *)
(***************************************************************************)
\* The account process stops and starts again: the sleeping silence timers
\* and the requests in progress are lost with the event loop.  The startup
\* code creates the tables and reads no customer.
RestartAccount ==
    /\ \/ \E c \in Customers : asleep[c] > 0
       \/ tmr # <<>>
       \/ rest # <<>>
    /\ asleep' = [c \in Customers |-> 0]
    /\ tmr' = <<>>
    /\ rest' = <<>>
    /\ UNCHANGED <<customers, out, decided, reply, dresp, vetoed>>
    /\ UNCHANGED sagaVars

\* The billing process stops and starts again: the sleeping payment timers
\* are lost.  startup_event creates the tables and runs the migration; it
\* reads no invoice.
RestartBilling ==
    /\ \E id \in InvoiceIds : ptimers[id] > 0
    /\ ptimers' = [id \in InvoiceIds |-> 0]
    /\ UNCHANGED <<invoices, items, bus, ncomp, http, not_found, failing>>
    /\ UNCHANGED delVars

\* The two coordinators with their timers and their restarts.
RestartNext ==
    \/ \E id \in InvoiceIds, p \in Products, q \in Quantities, invOk \in BOOLEAN, custOk \in BOOLEAN :
          CreateInvoice(id, p, q, invOk, custOk)
    \/ \E m \in bus : HandleInventoryCheck(m)
    \/ \E m \in bus, payOk \in BOOLEAN : HandleInventoryResponse(m, payOk)
    \/ \E id \in InvoiceIds : CheckPaymentTimeout(id)
    \/ RestartBilling
    \/ \E c \in Customers, pubOk \in BOOLEAN : RequestDeletion(c, pubOk)
    \/ \E c \in Customers : TimerWake(c)
    \/ TimerAct
    \/ RestartAccount

\* A process that is up delivers the events it holds and lets its sleeping
\* timers wake; nothing makes a process restart.
RestartFairness ==
    /\ WF_vars(\E m \in bus : HandleInventoryCheck(m))
    /\ WF_vars(\E m \in bus, payOk \in BOOLEAN : HandleInventoryResponse(m, payOk))
    /\ WF_vars(\E id \in InvoiceIds : CheckPaymentTimeout(id))
    /\ WF_vars(\E c \in Customers : TimerWake(c))
    /\ WF_vars(TimerAct)

RestartSpec == Init /\ [][RestartNext]_vars /\ RestartFairness

\* The coordinator on the event loop alone: requests, responses through the
\* subscription, resets and the silence timers.
ResetNext ==
    \/ \E c \in Customers, pubOk \in BOOLEAN : RequestDeletion(c, pubOk)
    \/ \E c \in Customers, s \in expected_services, can \in BOOLEAN :
          HandleDeletionResponse(c, s, can)
    \/ \E c \in Customers : ResetDeletion(c)
    \/ \E c \in Customers : TimerWake(c)
    \/ TimerAct

ResetSpec == Init /\ [][ResetNext]_vars

\* Billing's answers to deletion requests, together with the handlers that
\* take an invoice to each of its statuses.  The timers and the compensation
\* of the stock, which the verdict does not read, are left to Spec.
VerdictNext ==
    \/ \E id \in InvoiceIds, p \in Products, q \in Quantities, invOk \in BOOLEAN, custOk \in BOOLEAN :
          CreateInvoice(id, p, q, invOk, custOk)
    \/ \E m \in bus : HandleInventoryCheck(m)
    \/ \E m \in bus, payOk \in BOOLEAN : HandleInventoryResponse(m, payOk)
    \/ \E id \in InvoiceIds, o \in CustomerOutcomes : HandleCustomerResponse(id, o)
    \/ \E id \in InvoiceIds : HandlePaymentCompleted(id)
    \/ \E id \in InvoiceIds : HandlePaymentFailed(id)
    \/ \E id \in InvoiceIds : HandleBillingCompensate(id)
    \/ \E c \in RequestCustomers : HandleCustomerDeletionRequest(c)

VerdictSpec == Init /\ [][VerdictNext]_vars

\* The payment stage of the saga with handle_payment_failed in its two
\* steps, so that the other payment handlers and the payment timer run while
\* it is suspended.
PaymentNext ==
    \/ \E id \in InvoiceIds, p \in Products, q \in Quantities, invOk \in BOOLEAN, custOk \in BOOLEAN :
          CreateInvoice(id, p, q, invOk, custOk)
    \/ \E m \in bus : HandleInventoryCheck(m)
    \/ \E m \in bus, payOk \in BOOLEAN : HandleInventoryResponse(m, payOk)
    \/ \E id \in InvoiceIds : CheckPaymentTimeout(id)
    \/ \E id \in InvoiceIds : HandlePaymentCompleted(id)
    \/ \E id \in InvoiceIds : PaymentFailedCompensate(id)
    \/ \E id \in InvoiceIds : PaymentFailedMark(id)

PaymentSpec == Init /\ [][PaymentNext]_vars

(***************************************************************************)
(* Properties of the invoice saga (Spec)                                   *)
(***************************************************************************)
Terminal == {COMPLETED, FAILED, CANCELLED}

\* The edges of the invoice FSM.
FSMEdges ==
    {<<PENDING, PROCESSING>>, <<PROCESSING, PAYMENT_PROCESSING>>, <<PROCESSING, FAILED>>,
     <<PENDING, FAILED>>, <<PAYMENT_PROCESSING, COMPLETED>>, <<PAYMENT_PROCESSING, FAILED>>,
     <<PAYMENT_PROCESSING, CANCELLED>>}

\* C1 (FSM soundness): every change of the persisted status of an invoice is
\* an edge of the FSM; in particular a status of COMPLETED, FAILED or
\* CANCELLED, none of which has an outgoing edge, never changes again.
C1_FSMSoundness ==
    [][\A id \in DOMAIN invoices :
          invoices'[id].status # invoices[id].status
              => <<invoices[id].status, invoices'[id].status>> \in FSMEdges]_vars

\* C3 (idempotent compensation): a delivery of a compensate-inventory event
\* that was already applied (its confirmation has been published) leaves the
\* stock as it is, so n deliveries change the stock by as much as one.
C3_IdempotentCompensation ==
    [][\A m \in Topic("compensate-inventory") :
          (/\ InventoryCompensated(m.invoice_id, m.product_id, m.quantity) \in bus
           /\ HandleCompensateInventory(m))
              => items' = items]_vars

\* C4 (late-event neutrality): an inventory-response, customer-response,
\* payment-completed or payment-failed event delivered for an invoice that is
\* COMPLETED, FAILED or CANCELLED leaves the status unchanged and leaves an
\* entry in the matching per-stage string.
C4_LateEventNeutrality ==
    [][\A id \in DOMAIN invoices :
          invoices[id].status \in Terminal =>
            /\ (\E m \in Topic("inventory-response"), payOk \in BOOLEAN :
                    m.invoice_id = id /\ HandleInventoryResponse(m, payOk))
                 => /\ invoices'[id].status = invoices[id].status
                    /\ invoices'[id].inventory_status # None
            /\ (\E o \in CustomerOutcomes : HandleCustomerResponse(id, o))
                 => /\ invoices'[id].status = invoices[id].status
                    /\ invoices'[id].customer_status # None
            /\ (HandlePaymentCompleted(id) \/ HandlePaymentFailed(id))
                 => /\ invoices'[id].status = invoices[id].status
                    /\ invoices'[id].payment_status # None]_vars

\* C7 (CreateInvoice publish failure): when create-invoice returns after a
\* failed publish of inventory-check or customer-check, the persisted status
\* of the invoice is FAILED and its note describes the failure.
C7_CreateInvoicePublishFailure ==
    [][\A id \in InvoiceIds :
          (http[id] = None /\ http'[id] = "500")
              => /\ invoices'[id].status = FAILED
                 /\ invoices'[id].notes \notin {<<"created_verifying">>,
                                                <<"verification_in_progress">>}]_vars

\* C8 (payment-completed only from PAYMENT_PROCESSING): a payment-completed
\* event completes an invoice only when its status is PAYMENT_PROCESSING;
\* delivered while the invoice is PENDING or PROCESSING it leaves the status
\* unchanged and is recorded as a note.
C8_PaymentCompletedOnlyFromPaymentProcessing ==
    [][\A id \in DOMAIN invoices :
          HandlePaymentCompleted(id) =>
            /\ (invoices[id].status # COMPLETED /\ invoices'[id].status = COMPLETED)
                  => invoices[id].status = PAYMENT_PROCESSING
            /\ invoices[id].status \in {PENDING, PROCESSING}
                  => /\ invoices'[id].status = invoices[id].status
                     /\ invoices'[id].notes # invoices[id].notes]_vars

\* C9 (inventory-response guarded by the status): an inventory-response with
\* available = true whose payment-request is published moves a PROCESSING
\* invoice to PAYMENT_PROCESSING; for an invoice in any other status it
\* changes no status, starts no payment and publishes no payment-request.
C9_InventoryResponseOnlyWhenProcessing ==
    [][\A m \in Topic("inventory-response") :
          (m.available /\ m.invoice_id \in DOMAIN invoices /\ HandleInventoryResponse(m, TRUE))
              => IF invoices[m.invoice_id].status = PROCESSING
                 THEN invoices'[m.invoice_id].status = PAYMENT_PROCESSING
                 ELSE /\ invoices'[m.invoice_id].status = invoices[m.invoice_id].status
                      /\ ptimers' = ptimers
                      /\ Topic("payment-request")' = Topic("payment-request")]_vars

\* C10 (happy path): an invoice of quantity q whose inventory check answered
\* available and whose payment-completed was taken, with no compensation
\* requested, is COMPLETED with unit_price = p, total_amount = p * q and the
\* stock of its product is s - q.
C10_HappyPath ==
    \A id \in DOMAIN invoices :
        (/\ invoices[id].inventory_status = "available"
         /\ invoices[id].payment_status = "completed"
         /\ Topic("compensate-inventory") = {}
         /\ Topic("inventory-response") =
                {InventoryResponse(id, TRUE, items[invoices[id].product_id].price)})
            => /\ invoices[id].status = COMPLETED
               /\ invoices[id].unit_price = Price
               /\ invoices[id].total_amount = Price * invoices[id].quantity
               /\ items[invoices[id].product_id].quantity = InitStock - invoices[id].quantity

\* The compensate-inventory requests published for an invoice.
CompensationsOf(b, id) == {m \in b : m.topic = "compensate-inventory" /\ m.invoice_id = id}

C12_PaymentFailed ==
    [][\A id \in DOMAIN invoices :
          HandlePaymentFailed(id) =>
              IF invoices[id].status \notin Terminal
              THEN /\ invoices'[id].status = FAILED
                   /\ CompensationsOf(bus', id) # {}
                   /\ ncomp'[id] = ncomp[id] + 1
              ELSE /\ ncomp'[id] = ncomp[id]
                   /\ bus' = bus]_vars

\* C13 (compensation carries the invoice's own data): every
\* compensate-inventory request published for an invoice carries the
\* product_id and the quantity of that invoice.
C13_CompensationCarriesInvoiceData ==
    \A id \in DOMAIN invoices :
        \A m \in CompensationsOf(bus, id) :
            /\ m.product_id = invoices[id].product_id
            /\ m.quantity = invoices[id].quantity

\* The inventory never answered that the stock covers this invoice.
NeverAvailable(b, id) ==
    \A m \in b : (m.topic = "inventory-response" /\ m.invoice_id = id) => ~m.available

NoVeto(text) == \A s \in DOMAIN json_loads(text) : json_loads(text)[s].can_delete

\* Every expected service has a vote of true, its own or a timeout vote, in
\* the votes the finalization decided on.
AllConsent(d) ==
    /\ d # <<>>
    /\ \A s \in expected_services : s \in DOMAIN d[1] /\ d[1][s].can_delete

\* C2 (deletion safety): a finalization sets the status to DELETED only if,
\* at that instant, no recorded vote has can_delete = false and every
\* expected service has voted true or has been given a timeout vote.
C2_DeletionSafety ==
    [][\A c \in Customers :
          (customers[c].status # DELETED /\ customers'[c].status = DELETED) =>
            /\ (TimerAct \/ RestFinalize)
                  => NoVeto(customers[c].deletion_responses) /\ AllConsent(decided'[c])
            /\ (\E s \in expected_services, can \in BOOLEAN : HandleDeletionResponse(c, s, can))
                  => NoVeto(customers'[c].deletion_responses) /\ AllConsent(decided'[c])]_vars

\* C5 (silence as consent): when a deletion request was broadcast and the
\* silence timer acts on a customer that is still PENDING_DELETION with no
\* response recorded, the customer becomes DELETED, deletion_responses holds
\* a timeout vote with can_delete = true for every expected service, and the
\* completion is announced with method silence_timeout.
C5_SilenceAsConsent ==
    [][\A c \in Customers :
          (/\ TimerAct
           /\ tmr[1].customer_id = c
           /\ DeletionRequest(c) \in out
           /\ customers[c].status = PENDING_DELETION
           /\ customers[c].deletion_responses = NoText)
              => /\ customers'[c].status = DELETED
                 /\ DOMAIN json_loads(customers'[c].deletion_responses) = expected_services
                 /\ \A s \in expected_services :
                       /\ json_loads(customers'[c].deletion_responses)[s].can_delete
                       /\ json_loads(customers'[c].deletion_responses)[s].response_type
                              = "silence_timeout"
                 /\ DeletionCompleted(c, "silence_timeout") \in out']_vars

\* A customer deleted by the silence timer, its timeout votes stored and the
\* completion announced.
C5_Witness ==
    \E c \in Customers :
        /\ customers[c].status = DELETED
        /\ customers[c].deletion_responses # NoText
        /\ \A s \in expected_services :
              json_loads(customers[c].deletion_responses)[s] = TimeoutVote
        /\ DeletionCompleted(c, "silence_timeout") \in out
        /\ DeletionResult(c, "customer_deleted") \notin out

C15_VetoFinalizesImmediately ==
    [][\A c \in Customers, s \in expected_services :
          (customers[c].status = PENDING_DELETION /\ HandleDeletionResponse(c, s, FALSE))
              => customers'[c].status = ACTIVE]_vars

\* The dict holds a vote with can_delete = true of every expected service.
AllTrueVotes(responses) ==
    /\ expected_services \subseteq DOMAIN responses
    /\ \A s \in DOMAIN responses : responses[s].can_delete

\* C16 (consensus commit): the handling of the vote that completes a set of
\* true votes of all the expected services sets the customer DELETED with
\* deletion_completed = true and deletion_blocked_by null, and announces the
\* completion with method = consensus.
C16_ConsensusCommit ==
    [][\A c \in Customers, s \in expected_services :
          (/\ HandleDeletionResponse(c, s, TRUE)
           /\ AllTrueVotes(json_loads(customers'[c].deletion_responses)))
              => /\ customers'[c].status = DELETED
                 /\ customers'[c].deletion_completed
                 /\ customers'[c].deletion_blocked_by = NoText
                 /\ DeletionCompleted(c, "consensus") \in out']_vars

\* C17 (events of a finalization): every step that finalizes a deletion (the
\* customer leaves PENDING_DELETION for ACTIVE or DELETED) has published a
\* customer.deletion.result event, and every one that commits (DELETED) has
\* also published a customer.deletion.completed event with method consensus
\* or silence_timeout.
C17_FinalizationEvents ==
    [][\A c \in Customers :
          (customers[c].status = PENDING_DELETION /\ decided'[c] # decided[c])
              => /\ \E m \in out' : m.topic = "customer.deletion.result" /\ m.customer_id = c
                 /\ customers'[c].status = DELETED
                       => \E method \in {"consensus", "silence_timeout"} :
                              DeletionCompleted(c, method) \in out']_vars

\* C18 (deletion of a deleted customer): RequestDeletion on a customer whose
\* status is DELETED changes nothing: the status stays DELETED, nothing is
\* broadcast and no timer is started.
C18_RequestDeletionOnDeleted ==
    [][\A c \in Customers, pubOk \in BOOLEAN :
          (customers[c].status = DELETED /\ RequestDeletion(c, pubOk))
              => /\ customers'[c] = customers[c]
                 /\ out' = out
                 /\ asleep' = asleep]_vars

\* C19 (deletion of a customer pending deletion): RequestDeletion on a
\* customer whose status is PENDING_DELETION is answered with an error result
\* and changes nothing: the row keeps its deletion_requested_at and its
\* deletion_responses, nothing is broadcast and no timer is started.
C19_RequestDeletionOnPending ==
    [][\A c \in Customers, pubOk \in BOOLEAN :
          (customers[c].status = PENDING_DELETION /\ RequestDeletion(c, pubOk))
              => /\ reply'[c] = "error_in_progress"
                 /\ customers'[c] = customers[c]
                 /\ out' = out
                 /\ asleep' = asleep]_vars

C19_Witness ==
    \E c \in Customers :
        /\ reply[c] = "error_in_progress"
        /\ customers[c].status = PENDING_DELETION
        /\ customers[c].deletion_requested_at = "now"
        /\ DOMAIN json_loads(customers[c].deletion_responses) # {}
        /\ asleep[c] = 1

\* C20 (responses only while pending): a deletion response is accepted only
\* while the customer is PENDING_DELETION with deletion_completed false; no
\* step of the handling of a response changes the status, the
\* deletion_responses or the deletion_blocked_by of a customer in any other
\* state.
C20_ResponseOnlyWhilePending ==
    [][\A c \in Customers :
          (/\ customers[c].status # PENDING_DELETION \/ customers[c].deletion_completed
           /\ \/ \E s \in expected_services, can \in BOOLEAN :
                    HandleDeletionResponse(c, s, can) \/ RestLoad(c, s, can)
              \/ rest # <<>> /\ rest[1].customer_id = c /\ (RestRecord \/ RestFinalize))
              => /\ customers'[c].status = customers[c].status
                 /\ customers'[c].deletion_responses = customers[c].deletion_responses
                 /\ customers'[c].deletion_blocked_by = customers[c].deletion_blocked_by]_vars

\* C21 (customer invariant): in every reachable state a customer is
\* PENDING_DELETION if and only if deletion_completed is false,
\* deletion_requested_at is set and deletion_timeout_at is set.
C21_CustomerInvariant ==
    \A c \in Customers :
        (customers[c].status = PENDING_DELETION)
            <=> (/\ ~customers[c].deletion_completed
                 /\ customers[c].deletion_requested_at # None
                 /\ customers[c].deletion_timeout_at # None)

\* The step is a finalization of the deletion of c: the silence timer acting,
\* or _finalize_deletion_decision called for the last expected response.
Finalizes(c) ==
    \/ tmr # <<>> /\ tmr[1].customer_id = c /\ TimerAct
    \/ rest # <<>> /\ rest[1].customer_id = c /\ RestFinalize
    \/ \E s \in expected_services, can \in BOOLEAN :
          /\ HandleDeletionResponse(c, s, can)
          /\ expected_services \subseteq DOMAIN json_loads(customers'[c].deletion_responses)

\* C22 (deletion_blocked_by): a finalization that cancels the deletion leaves
\* in deletion_blocked_by exactly the services whose recorded vote has
\* can_delete = false, each with its reason, and clears
\* deletion_requested_at; a finalization that commits leaves
\* deletion_blocked_by null.
C22_BlockedBy ==
    [][\A c \in Customers :
          Finalizes(c) =>
              /\ customers'[c].status = ACTIVE
                    => /\ customers'[c].deletion_blocked_by =
                              json_dumps(blocking_services(
                                  json_loads(customers'[c].deletion_responses)))
                       /\ customers'[c].deletion_requested_at = None
              /\ customers'[c].status = DELETED
                    => customers'[c].deletion_blocked_by = NoText]_vars

C24_CompensationMissingProduct ==
    \A m \in not_found :
        InventoryCompensationFailed(m.invoice_id, m.product_id) \in bus

C25_CompensatedKeepsStatus ==
    [][\A m \in Topic("inventory-compensated") :
          HandleInventoryCompensated(m)
              => invoices'[m.invoice_id].status = invoices[m.invoice_id].status]_vars

C28_InvoiceTerminates ==
    \A id \in InvoiceIds :
        (id \in DOMAIN invoices)
            ~> (id \in DOMAIN invoices /\ invoices[id].status \in Terminal)

\* C29 (every deletion request is decided): while the process keeps running,
\* a customer that is PENDING_DELETION eventually leaves PENDING_DELETION for
\* ACTIVE or DELETED, whatever subset of the expected services responds.
C29_DeletionDecided ==
    \A c \in Customers :
        (customers[c].status = PENDING_DELETION)
            ~> (customers[c].status \in {ACTIVE, DELETED})

\* A deletion decided by the timer on a partial set of responses that holds a
\* veto.
C29_Witness ==
    \E c \in Customers :
        /\ customers[c].status = ACTIVE
        /\ decided[c] # <<>>
        /\ \E s \in DOMAIN decided[c][1] : decided[c][1][s].response_type = "silence_timeout"
        /\ \E s \in DOMAIN decided[c][1] : ~decided[c][1][s].can_delete

\* C30 (recovery after restart): also when a coordinator process restarts and
\* loses its timers, no entity stays pending forever: a customer that is
\* PENDING_DELETION is eventually ACTIVE or DELETED, and an invoice whose
\* payment was requested is eventually COMPLETED, FAILED or CANCELLED.
C30_RecoveryAfterRestart ==
    /\ \A c \in Customers :
          (customers[c].status = PENDING_DELETION)
              ~> (customers[c].status \in {ACTIVE, DELETED})
    /\ \A id \in InvoiceIds :
          (id \in DOMAIN invoices /\ PaymentRequested(id))
              ~> (id \in DOMAIN invoices /\ invoices[id].status \in Terminal)

\* C31 (concurrent deletion responses): while a deletion request is pending,
\* a vote that was recorded in deletion_responses stays recorded when the
\* response of another service is handled (no lost update of the vote map),
\* and a finalization acts only on a customer that is still PENDING_DELETION,
\* so that a request is finalized at most once.
C31_ConcurrentResponses ==
    [][\A c \in Customers :
          /\ (customers[c].status = PENDING_DELETION
                /\ customers'[c].status = PENDING_DELETION)
                => DOMAIN json_loads(customers[c].deletion_responses)
                      \subseteq DOMAIN json_loads(customers'[c].deletion_responses)
          /\ Finalizes(c) => customers[c].status = PENDING_DELETION]_vars

\* C32 (no stock inflation): with no manual stock edits, after any sequence
\* of invoice workflows with duplicated and reordered deliveries, the stock
\* of a product never exceeds its initial value.
C32_NoStockInflation ==
    \A p \in DOMAIN items : items[p].quantity <= InitStock

\* The inventory of the invoice was reserved: an inventory check of the
\* invoice decremented the stock and answered available.
Reserved(b, id) ==
    \E m \in b : m.topic = "inventory-response" /\ m.invoice_id = id /\ m.available

\* C33 (no reservation leak): when an invoice whose inventory was reserved
\* goes from a status that is not FAILED or CANCELLED to FAILED or CANCELLED,
\* by any handler, a compensate-inventory request for it has been published.
C33_NoReservationLeak ==
    [][\A id \in DOMAIN invoices :
          (/\ Reserved(bus, id)
           /\ invoices[id].status \notin {FAILED, CANCELLED}
           /\ invoices'[id].status \in {FAILED, CANCELLED})
              => CompensationsOf(bus', id) # {}]_vars

\* C34 (at most one compensation per invoice): over any sequence of
\* payment-failed deliveries, payment-timer firings and payment-request
\* publish failures for one invoice, billing publishes at most one
\* compensate-inventory request for it.
C34_AtMostOneCompensation ==
    \A id \in InvoiceIds : ncomp[id] <= 1

\* C35 (completion and compensation exclude each other): in every reachable
\* state an invoice that is COMPLETED has had no compensate-inventory request
\* published for it; as compensation requests are never withdrawn, this also
\* says that an invoice with a requested compensation is never COMPLETED.
C35_CompletionExcludesCompensation ==
    \A id \in DOMAIN invoices :
        invoices[id].status = COMPLETED => CompensationsOf(bus, id) = {}

\* C36 (a silence timer acts on its own request only): the timers of one
\* customer sleep for the same time, so a timer that acts while a later timer
\* of the customer is still asleep was started by an earlier request; its
\* firing changes nothing of the customer and publishes nothing.
C36_StaleTimer ==
    [][\A c \in Customers :
          (/\ tmr # <<>>
           /\ tmr[1].customer_id = c
           /\ asleep[c] >= 1
           /\ TimerAct)
              => /\ customers'[c] = customers[c]
                 /\ out' = out]_vars

\* C37 (a veto is never lost): once a response with can_delete = false was
\* recorded for the current deletion request of a customer, the customer is
\* not DELETED by that request.
C37_VetoNeverLost ==
    \A c \in Customers : vetoed[c] => customers[c].status # DELETED

\* C38 (at most one payment request per invoice): a delivery of an
\* inventory-response with available = true for an invoice whose
\* payment-request has already been published publishes nothing and starts
\* no payment timer.
C38_OnePaymentRequest ==
    [][\A m \in Topic("inventory-response"), payOk \in BOOLEAN :
          (/\ m.available
           /\ PaymentRequested(m.invoice_id)
           /\ HandleInventoryResponse(m, payOk))
              => /\ ptimers' = ptimers
                 /\ bus' = bus]_vars

\* C39 (duplicate inventory-check is harmless): a delivery of the
\* inventory-check event of an invoice that was already answered as available
\* (its stock was already taken) leaves the stock as it is.
C39_DuplicateInventoryCheck ==
    [][\A m \in Topic("inventory-check") :
          (Reserved(bus, m.invoice_id) /\ HandleInventoryCheck(m))
              => items' = items]_vars

==============================================================================
